---- MODULE Spec2Model ----
(***************************************************************************)
(* The tasks REST controller of storyboard (storyboard/api/v1/tasks.py):   *)
(* TasksController.get_one, get_all, post, put, _post_timeline_events and  *)
(* delete, over the persistence API (storyboard.db.api.tasks) and the      *)
(* event sink (storyboard.db.api.timeline_events).                         *)
(*                                                                         *)
(* Values.  A Python value that may be None is a sequence: None is << >>   *)
(* and the value v is <<v>>.  The id the store assigns is a plain integer. *)
(* A request body is a record holding exactly the fields the client        *)
(* supplied: a field that is wsme-Unset is absent from the record.         *)
(***************************************************************************)
EXTENDS Integers, Sequences, FiniteSets, TLC

VARIABLES
    conf,           \* CONF: page_size_default, page_size_maximum
    tasks,          \* the store: the set of task rows
    next_id,        \* the id the store gives the next created row
    pc,             \* "idle", or "delete" between delete's event and its removal
    request,        \* the request being served / served last
    original_task,  \* original_task of put and delete (None otherwise)
    response,       \* outcome of the request served last
    timeline,       \* events the request handed to the event sink, in order
    created_by      \* history: id -> request.current_user_id of the creating post

vars == <<conf, tasks, next_id, pc, request, original_task, response, timeline,
          created_by>>

None == << >>

Some(v) == <<v>>

(* ------------------------------ bounds -------------------------------- *)

\* In the life of a store at most this many rows are created (ids 1..MaxTasks).
MaxTasks == 1

\* A listed store holds at most this many rows (ids 1..MaxRows).
MaxRows == 2

TaskIds == 1..MaxTasks

RowIds == 1..MaxRows

\* Ids a request may name: every id that can exist and one that never does.
RequestIds == 1..(MaxTasks + 1)

MarkerIds == 1..(MaxRows + 1)

Users == {41, 42}

\* A creator_id a client may put in a body: no authenticated identity.
ClientCreators == {999}

Titles == {"a", "b"}

Statuses == {"todo", "review"}

Priorities == {"low", "high"}

Stories == {1, 2}

Projects == {1, 2}

Assignees == {7}

(* ------------------------------ Task ---------------------------------- *)

TaskFields == {"title", "status", "is_active", "creator_id", "story_id",
               "project_id", "assignee_id", "priority"}

\* Python's str() of an integer: its decimal digits, "-" first when negative.
RECURSIVE Digits(_)
Digits(n) ==
    LET d == <<"0", "1", "2", "3", "4", "5", "6", "7", "8", "9">>
    IN  IF n < 10 THEN <<d[n + 1]>> ELSE Append(Digits(n \div 10), d[(n % 10) + 1])

str(n) == IF n < 0 THEN <<"-">> \o Digits(0 - n) ELSE Digits(n)

\* Task.as_dict(): every field, None where the body left it unset.
as_dict(task) ==
    [f \in TaskFields |-> IF f \in DOMAIN task THEN task[f] ELSE None]

\* Task.as_dict(omit_unset=True): the supplied fields only.
as_dict_omit_unset(task) == task

(* ------------------------- persistence API ---------------------------- *)

\* tasks_api.task_get: the row with that id, or None.
task_get(store, task_id) ==
    IF task_id # None /\ \E t \in store : t.id = task_id[1]
    THEN Some(CHOOSE t \in store : t.id = task_id[1])
    ELSE None

\* tasks_api.task_create: a new row with the next id and the given values.
task_create(id, values) ==
    [f \in TaskFields \cup {"id"} |-> IF f = "id" THEN id ELSE values[f]]

\* tasks_api.task_update: the row with the given values written over it.
row_update(row, values) ==
    [f \in DOMAIN row |-> IF f \in DOMAIN values THEN values[f] ELSE row[f]]

task_update(store, task_id, values) ==
    LET found == task_get(store, Some(task_id))
    IN  IF found = None THEN None ELSE Some(row_update(found[1], values))

store_update(store, task_id, values) ==
    {IF t.id = task_id THEN row_update(t, values) ELSE t : t \in store}

\* tasks_api.task_delete: the row is removed.
task_delete(store, task_id) == {t \in store : t.id # task_id}

\* The rows a listing or a count selects: None as a filter selects all.
matching(store, assignee_id, story_id) ==
    {t \in store : /\ (story_id = None \/ t.story_id = story_id)
                   /\ (assignee_id = None \/ t.assignee_id = assignee_id)}

\* tasks_api.task_get_count
task_get_count(store, assignee_id, story_id) ==
    Cardinality(matching(store, assignee_id, story_id))

sort_key(t, sort_field) == IF sort_field = "id" THEN t.id ELSE t[sort_field][1]

\* a comes before b in the listing: by sort_field, then by id, in sort_dir.
before(a, b, sort_field, sort_dir) ==
    LET ka == sort_key(a, sort_field)
        kb == sort_key(b, sort_field)
    IN  IF sort_dir = "asc"
        THEN ka < kb \/ (ka = kb /\ a.id < b.id)
        ELSE ka > kb \/ (ka = kb /\ a.id > b.id)

RECURSIVE ordered(_, _, _)
ordered(rows, sort_field, sort_dir) ==
    IF rows = {} THEN << >>
    ELSE LET first == CHOOSE a \in rows :
                        \A b \in rows \ {a} : before(a, b, sort_field, sort_dir)
         IN  <<first>> \o ordered(rows \ {first}, sort_field, sort_dir)

take(s, n) == SubSeq(s, 1, IF n < Len(s) THEN n ELSE Len(s))

\* tasks_api.task_get_all: the matching rows after the marker row, in order,
\* at most limit of them.
task_get_all(store, marker, limit, assignee_id, story_id, sort_field, sort_dir) ==
    LET rows == matching(store, assignee_id, story_id)
        page == IF marker = None THEN rows
                ELSE {t \in rows : before(marker[1], t, sort_field, sort_dir)}
    IN  take(ordered(page, sort_field, sort_dir), limit)

(* --------------------------- event sink -------------------------------- *)

task_created_event(story_id, task_title, author_id) ==
    [kind |-> "task_created", story_id |-> story_id, task_title |-> task_title,
     author_id |-> author_id]

task_status_changed_event(story_id, task_title, author_id, old_s, new_s) ==
    [kind |-> "task_status_changed", story_id |-> story_id,
     task_title |-> task_title, author_id |-> author_id,
     old |-> old_s, new |-> new_s]

task_priority_changed_event(story_id, task_title, author_id, old_p, new_p) ==
    [kind |-> "task_priority_changed", story_id |-> story_id,
     task_title |-> task_title, author_id |-> author_id,
     old |-> old_p, new |-> new_p]

task_assignee_changed_event(story_id, task_title, author_id, old_a, new_a) ==
    [kind |-> "task_assignee_changed", story_id |-> story_id,
     task_title |-> task_title, author_id |-> author_id,
     old |-> old_a, new |-> new_a]

task_details_changed_event(story_id, task_title, author_id) ==
    [kind |-> "task_details_changed", story_id |-> story_id,
     task_title |-> task_title, author_id |-> author_id]

task_deleted_event(story_id, task_title, author_id) ==
    [kind |-> "task_deleted", story_id |-> story_id, task_title |-> task_title,
     author_id |-> author_id]

(* --------------------------- TasksController --------------------------- *)

NoHeaders == [h \in {} |-> None]

Min(a, b) == IF a < b THEN a ELSE b

Max(a, b) == IF a > b THEN a ELSE b

\* The boundary check skipped for the configured default.
effective_limit_default_unclamped(c, limit) ==
    IF limit = None THEN c.page_size_default
    ELSE Min(c.page_size_maximum, Max(1, limit[1]))

\* get_all, "Boundary check on limit".
effective_limit(c, limit) ==
    LET l == IF limit = None THEN c.page_size_default ELSE limit[1]
    IN  Min(c.page_size_maximum, Max(1, l))

\* The marker kept whatever story its row belongs to.
resolve_marker_any_story(store, marker, story_id) == task_get(store, marker)

\* The story compared only when the request filters by story.
resolve_marker_unfiltered_kept(store, marker, story_id) ==
    LET marker_task == task_get(store, marker)
    IN  IF marker_task = None
           \/ (story_id # None /\ marker_task[1].story_id # story_id)
        THEN None ELSE marker_task

\* get_all, "Resolve the marker record".
resolve_marker(store, marker, story_id) ==
    LET marker_task == task_get(store, marker)
    IN  IF marker_task = None \/ marker_task[1].story_id # story_id
        THEN None ELSE marker_task

\* get_all: the count handed to X-Total.
get_all_count(store, assignee_id, story_id) ==
    task_get_count(store, assignee_id, story_id)

\* get_all: the response headers.
get_all_headers(limit, task_count, marker_task) ==
    IF marker_task # None
    THEN ("X-Limit" :> str(limit)) @@ ("X-Total" :> str(task_count))
         @@ ("X-Marker" :> str(marker_task[1].id))
    ELSE ("X-Limit" :> str(limit)) @@ ("X-Total" :> str(task_count))

\* X-Total taken from the page instead of from task_get_count.
get_all_total_of_page(c, store, story_id, assignee_id, marker, limit, field, dir) ==
    LET lim == effective_limit(c, limit)
        marker_task == resolve_marker(store, marker, story_id)
        page == task_get_all(store, marker_task, lim, assignee_id, story_id,
                             field, dir)
    IN  [status |-> 200, error |-> None, body |-> page,
         headers |-> get_all_headers(lim, Len(page), marker_task)]

get_all(c, store, story_id, assignee_id, marker, limit, field, dir) ==
    LET lim == effective_limit(c, limit)
        marker_task == resolve_marker(store, marker, story_id)
        page == task_get_all(store, marker_task, lim, assignee_id, story_id,
                             field, dir)
        task_count == get_all_count(store, assignee_id, story_id)
    IN  [status |-> 200, error |-> None, body |-> page,
         headers |-> get_all_headers(lim, task_count, marker_task)]

\* post: the body with creator_id overwritten by request.current_user_id.
post_task(task, current_user_id) ==
    [f \in DOMAIN task \cup {"creator_id"} |->
        IF f = "creator_id" THEN Some(current_user_id) ELSE task[f]]

\* put: the values handed to task_update.
put_values(task) == as_dict_omit_unset(task)

\* The three comparisons chained with elif: the first difference only.
post_timeline_events_first_only(original, updated, author_id) ==
    IF original.status # updated.status
    THEN <<task_status_changed_event(original.story_id, original.title,
                author_id, original.status, updated.status)>>
    ELSE IF original.priority # updated.priority
    THEN <<task_priority_changed_event(original.story_id, original.title,
                author_id, original.priority, updated.priority)>>
    ELSE IF original.assignee_id # updated.assignee_id
    THEN <<task_assignee_changed_event(original.story_id, original.title,
                author_id, original.assignee_id, updated.assignee_id)>>
    ELSE <<task_details_changed_event(original.story_id, original.title,
                                      author_id)>>

\* The generic event emitted without looking at specific_change.
post_timeline_events_always_details(original, updated, author_id) ==
    (IF original.status # updated.status
     THEN <<task_status_changed_event(original.story_id, original.title,
                 author_id, original.status, updated.status)>>
     ELSE << >>)
    \o (IF original.priority # updated.priority
        THEN <<task_priority_changed_event(original.story_id, original.title,
                    author_id, original.priority, updated.priority)>>
        ELSE << >>)
    \o (IF original.assignee_id # updated.assignee_id
        THEN <<task_assignee_changed_event(original.story_id, original.title,
                    author_id, original.assignee_id, updated.assignee_id)>>
        ELSE << >>)
    \o <<task_details_changed_event(original.story_id, original.title, author_id)>>

\* _post_timeline_events: the events of one update, in the order emitted.
post_timeline_events(original, updated, author_id) ==
    LET status_ev ==
            IF original.status # updated.status
            THEN <<task_status_changed_event(original.story_id, original.title,
                        author_id, original.status, updated.status)>>
            ELSE << >>
        priority_ev ==
            IF original.priority # updated.priority
            THEN <<task_priority_changed_event(original.story_id, original.title,
                        author_id, original.priority, updated.priority)>>
            ELSE << >>
        assignee_ev ==
            IF original.assignee_id # updated.assignee_id
            THEN <<task_assignee_changed_event(original.story_id, original.title,
                        author_id, original.assignee_id, updated.assignee_id)>>
            ELSE << >>
        specific_change == status_ev \o priority_ev \o assignee_ev
    IN  IF specific_change = << >>
        THEN <<task_details_changed_event(original.story_id, original.title,
                                          author_id)>>
        ELSE specific_change

\* delete: the event handed to the sink before the row is removed.
delete_event(original, current_user_id) ==
    task_deleted_event(original.story_id, original.title, current_user_id)

NotFound == [status |-> 404, error |-> "ClientSideError", body |-> None,
             headers |-> NoHeaders]

\* An exception that is no ClientSideError leaves as a server error.
ServerError(kind) == [status |-> 500, error |-> kind, body |-> None,
                      headers |-> NoHeaders]

Ok(code, body) == [status |-> code, error |-> None, body |-> body,
                   headers |-> NoHeaders]

\* No response yet: the request is still being served.
Pending == [status |-> 0, error |-> None, body |-> None,
            headers |-> NoHeaders]

(* ------------------------------ requests ------------------------------- *)

GetOne(task_id) ==
    /\ pc = "idle"
    /\ LET task == task_get(tasks, Some(task_id))
       IN  response' = IF task # None THEN Ok(200, task) ELSE NotFound
    /\ request' = [op |-> "get_one", task_id |-> task_id]
    /\ original_task' = None
    /\ timeline' = << >>
    /\ UNCHANGED <<conf, tasks, next_id, pc, created_by>>

GetAll(story_id, assignee_id, marker, limit, sort_field, sort_dir) ==
    /\ pc = "idle"
    /\ response' = get_all(conf, tasks, story_id, assignee_id, marker, limit,
                           sort_field, sort_dir)
    /\ request' = [op |-> "get_all", story_id |-> story_id,
                   assignee_id |-> assignee_id, marker |-> marker,
                   limit |-> limit, sort_field |-> sort_field,
                   sort_dir |-> sort_dir]
    /\ original_task' = None
    /\ timeline' = << >>
    /\ pc' = "listed"
    /\ UNCHANGED <<conf, tasks, next_id, created_by>>

Post(current_user_id, task) ==
    /\ pc = "idle"
    /\ next_id <= MaxTasks
    /\ LET sent == post_task(task, current_user_id)
           created_task == task_create(next_id, as_dict(sent))
       IN  /\ tasks' = tasks \cup {created_task}
           /\ timeline' = <<task_created_event(sent.story_id, created_task.title,
                                               current_user_id)>>
           /\ response' = Ok(200, Some(created_task))
    /\ next_id' = next_id + 1
    /\ created_by' = [created_by EXCEPT ![next_id] = Some(current_user_id)]
    /\ request' = [op |-> "post", user |-> current_user_id]
    /\ original_task' = None
    /\ UNCHANGED <<conf, pc>>

Put(current_user_id, task_id, task) ==
    /\ pc = "idle"
    /\ LET original == task_get(tasks, Some(task_id))
           updated_task == task_update(tasks, task_id, put_values(task))
       IN  /\ original_task' = original
           /\ tasks' = store_update(tasks, task_id, put_values(task))
           /\ IF updated_task # None
              THEN /\ timeline' = post_timeline_events(original[1], updated_task[1],
                                                       current_user_id)
                   /\ response' = Ok(200, updated_task)
              ELSE /\ timeline' = << >>
                   /\ response' = NotFound
    /\ request' = [op |-> "put", task_id |-> task_id, user |-> current_user_id]
    /\ UNCHANGED <<conf, next_id, pc, created_by>>

\* The row removed before the event is handed to the sink.
DeleteEmitAfterRemove(current_user_id, task_id) ==
    /\ pc = "idle"
    /\ LET original == task_get(tasks, Some(task_id))
       IN  /\ original_task' = original
           /\ tasks' = task_delete(tasks, task_id)
           /\ IF original # None
              THEN /\ timeline' = <<delete_event(original[1], current_user_id)>>
                   /\ pc' = "delete"
                   /\ response' = Pending
              ELSE /\ timeline' = << >>
                   /\ pc' = "idle"
                   /\ response' = ServerError("AttributeError")
    /\ request' = [op |-> "delete", task_id |-> task_id, user |-> current_user_id]
    /\ UNCHANGED <<conf, next_id, created_by>>

\* delete, up to the call of task_deleted_event: original_task.story_id raises
\* AttributeError when task_get returned None.
DeleteEmit(current_user_id, task_id) ==
    /\ pc = "idle"
    /\ LET original == task_get(tasks, Some(task_id))
       IN  /\ original_task' = original
           /\ IF original # None
              THEN /\ timeline' = <<delete_event(original[1], current_user_id)>>
                   /\ pc' = "delete"
                   /\ response' = Pending
              ELSE /\ timeline' = << >>
                   /\ pc' = "idle"
                   /\ response' = ServerError("AttributeError")
    /\ request' = [op |-> "delete", task_id |-> task_id, user |-> current_user_id]
    /\ UNCHANGED <<conf, tasks, next_id, created_by>>

\* delete, from task_delete to the 204.
DeleteRemove ==
    /\ pc = "delete"
    /\ tasks' = task_delete(tasks, request.task_id)
    /\ response' = Ok(204, None)
    /\ pc' = "idle"
    /\ UNCHANGED <<conf, next_id, request, original_task, timeline, created_by>>

(* ------------------------------ inputs --------------------------------- *)

\* A body with the fields given as Unset left out.
Unset == <<"unset", "unset">>

supplied(fields) == [f \in {k \in DOMAIN fields : fields[k] # Unset} |-> fields[f]]

Optional(values) == {Unset} \cup {Some(v) : v \in values}

\* Bodies that vary what identifies a task: title, story, project, creator.
IdentityPostBodies ==
    {supplied([title |-> Some(t), status |-> Some("todo"), priority |-> Some("low"),
               story_id |-> Some(s), project_id |-> Some(1), creator_id |-> c]) :
        t \in Titles, s \in Stories, c \in Optional(ClientCreators)}

IdentityPutBodies ==
    {supplied([title |-> t, story_id |-> s, project_id |-> p, creator_id |-> c]) :
        t \in Optional({"b"}), s \in Optional({2}), p \in Optional({2}),
        c \in Optional(ClientCreators)}

\* Bodies that vary the fields _post_timeline_events compares, and the title.
TrackedPostBodies ==
    {supplied([title |-> Some("a"), status |-> Some(st), priority |-> Some(pr),
               story_id |-> Some(1), project_id |-> Some(1), assignee_id |-> a]) :
        st \in Statuses, pr \in Priorities, a \in Optional(Assignees)}

TrackedPutBodies ==
    {supplied([title |-> t, status |-> st, priority |-> pr, assignee_id |-> a]) :
        t \in Optional(Titles), st \in Optional(Statuses),
        pr \in Optional(Priorities), a \in Optional(Assignees) \cup {None}}

NoneOr(values) == {None} \cup {Some(v) : v \in values}

PageSizes == 0..2

Confs == [page_size_default : PageSizes, page_size_maximum : PageSizes]

Limits == NoneOr((0 - 1)..3)

SortFields == {"id", "story_id"}

SortDirs == {"asc", "desc"}

\* A row as post leaves it.
posted_row(id, story, assignee) ==
    task_create(id, as_dict(post_task(
        [title |-> Some("a"), status |-> Some("todo"), priority |-> Some("low"),
         story_id |-> Some(story), project_id |-> Some(1), assignee_id |-> assignee],
        42)))

\* The stores that posts and deletes leave: any of the ids, each row in any
\* story and assigned or not.
ListedStores ==
    UNION {{{posted_row(i, f[i][1], f[i][2]) : i \in ids} :
                f \in [ids -> Stories \X NoneOr(Assignees)]} :
           ids \in SUBSET RowIds}

(* --------------------------- specifications ---------------------------- *)

InitEmpty ==
    /\ conf = [page_size_default |-> 2, page_size_maximum |-> 3]
    /\ tasks = {}
    /\ next_id = 1
    /\ pc = "idle"
    /\ request = [op |-> "none"]
    /\ original_task = None
    /\ response = Pending
    /\ timeline = << >>
    /\ created_by = [i \in TaskIds |-> None]

\* The life of the store: create, update, read one, delete.
Init == InitEmpty

Next ==
    \/ \E u \in Users, task \in IdentityPostBodies : Post(u, task)
    \/ \E u \in Users, id \in RequestIds, task \in IdentityPutBodies : Put(u, id, task)
    \/ \E id \in RequestIds : GetOne(id)
    \/ \E u \in Users, id \in RequestIds : DeleteEmit(u, id)
    \/ DeleteRemove

Spec == Init /\ [][Next]_vars

\* Updates of the tracked fields.
NextDiff ==
    \/ \E task \in TrackedPostBodies : Post(42, task)
    \/ \E id \in RequestIds, task \in TrackedPutBodies : Put(41, id, task)

SpecDiff == InitEmpty /\ [][NextDiff]_vars

\* One listing of a store: get_all writes nothing the next request reads.
InitQuery ==
    /\ conf \in Confs
    /\ tasks \in ListedStores
    /\ next_id = MaxRows + 1
    /\ pc = "idle"
    /\ request = [op |-> "none"]
    /\ original_task = None
    /\ response = Pending
    /\ timeline = << >>
    /\ created_by = [i \in RowIds |-> Some(42)]

NextQuery ==
    \E story_id \in NoneOr(Stories), assignee_id \in NoneOr(Assignees),
       marker \in NoneOr(MarkerIds), limit \in Limits,
       sort_field \in SortFields, sort_dir \in SortDirs :
        GetAll(story_id, assignee_id, marker, limit, sort_field, sort_dir)

SpecQuery == InitQuery /\ [][NextQuery]_vars

(* ------------------------------- claims -------------------------------- *)

Listed == pc = "listed"

Updated == request.op = "put" /\ response.status = 200

Ids(store) == {t.id : t \in store}

\* C1 as stated: X-Limit is the maximum for a limit above it, 1 for a limit
\* below 1, the limit itself in between and the configured default when no
\* limit is supplied, under every configuration, and no listing fails.
C1_LimitAsClaimed ==
    Listed =>
        /\ response.status = 200
        /\ response.headers["X-Limit"] =
             str(IF request.limit = None THEN conf.page_size_default
                 ELSE IF request.limit[1] > conf.page_size_maximum
                      THEN conf.page_size_maximum
                 ELSE IF request.limit[1] < 1 THEN 1
                 ELSE request.limit[1])

\* C1 amended: with v the supplied limit, or the configured default when none
\* is supplied, X-Limit (and the length bound of the page) is the maximum when
\* v is above it, else 1 when v is below 1 (the maximum itself when that is
\* below 1), else v; no listing fails.
C1_EffectiveLimit ==
    Listed =>
        LET v == IF request.limit = None THEN conf.page_size_default
                 ELSE request.limit[1]
            e == IF v > conf.page_size_maximum THEN conf.page_size_maximum
                 ELSE IF v >= 1 THEN v
                 ELSE IF conf.page_size_maximum < 1 THEN conf.page_size_maximum
                 ELSE 1
        IN  /\ response.status = 200
            /\ response.headers["X-Limit"] = str(e)
            /\ Len(response.body) <= e

\* No limit supplied, a default above the maximum: the maximum is reported.
C1_Witness ==
    /\ Listed
    /\ request.limit = None
    /\ conf.page_size_default > conf.page_size_maximum
    /\ conf.page_size_maximum >= 1
    /\ response.headers["X-Limit"] = str(conf.page_size_maximum)
    /\ Len(response.body) = conf.page_size_maximum

\* C2: every stored task's creator_id is the authenticated identity of the post
\* that created it, whatever the bodies of posts and puts supplied.
C2_CreatorIsCreatingIdentity ==
    \A t \in tasks : t.creator_id = created_by[t.id]

\* C3: after a put, the task's story_id and project_id are those it had before.
C3_StoryAndProjectKept ==
    Updated =>
        /\ response.body[1].story_id = original_task[1].story_id
        /\ response.body[1].project_id = original_task[1].project_id

TrackedEvents ==
    <<[field |-> "status", kind |-> "task_status_changed"],
      [field |-> "priority", kind |-> "task_priority_changed"],
      [field |-> "assignee_id", kind |-> "task_assignee_changed"]>>

IsTyped(e) == e.kind # "task_details_changed"

\* C4: the typed events of an update are, in the order status, priority,
\* assignee, one event for each of these fields whose value differs between
\* the original and the updated row, carrying the original value as old and
\* the updated value as new.
C4_TypedEventsOfDifferences ==
    Updated =>
        LET o == original_task[1]
            u == response.body[1]
            differs(x) == o[x.field] # u[x.field]
            expected == SelectSeq(TrackedEvents, differs)
            typed == SelectSeq(timeline, IsTyped)
        IN  /\ u \in tasks
            /\ Len(typed) = Len(expected)
            /\ \A i \in 1..Len(typed) :
                 /\ typed[i].kind = expected[i].kind
                 /\ typed[i].old = o[expected[i].field]
                 /\ typed[i].new = u[expected[i].field]
                 /\ typed[i].story_id = o.story_id
                 /\ typed[i].task_title = o.title
                 /\ typed[i].author_id = request.user

\* Status and assignee differ, priority does not: two events, in that order.
C4_Witness ==
    /\ Updated
    /\ original_task[1].status # response.body[1].status
    /\ original_task[1].priority = response.body[1].priority
    /\ original_task[1].assignee_id # response.body[1].assignee_id
    /\ Len(timeline) = 2
    /\ timeline[1].kind = "task_status_changed"
    /\ timeline[2].kind = "task_assignee_changed"

\* C5: an update emits exactly one details_changed event when none of status,
\* priority and assignee_id differs and none when one of them does, whatever
\* happened to the title; every update emits between 1 and 3 events.
C5_DetailsIffNoTrackedChange ==
    Updated =>
        LET o == original_task[1]
            u == response.body[1]
            tracked == o.status # u.status \/ o.priority # u.priority
                       \/ o.assignee_id # u.assignee_id
            details == SelectSeq(timeline, LAMBDA e : ~IsTyped(e))
        IN  /\ Len(details) = (IF tracked THEN 0 ELSE 1)
            /\ Len(timeline) \in 1..3

\* The title and the status changed: a status event and no details event.
C5_Witness ==
    /\ Updated
    /\ original_task[1].title # response.body[1].title
    /\ original_task[1].status # response.body[1].status
    /\ Len(timeline) = 1
    /\ timeline[1].kind = "task_status_changed"

MarkerInOtherStory ==
    /\ request.marker # None
    /\ \E t \in tasks : t.id = request.marker[1] /\ t.story_id # request.story_id

WithoutMarker ==
    get_all(conf, tasks, request.story_id, request.assignee_id, None,
            request.limit, request.sort_field, request.sort_dir)

\* C6: a listing whose marker is a task of another story than the story_id
\* filter answers as the same listing without a marker does (page, X-Limit,
\* X-Total), reports no X-Marker and does not fail.
C6_ForeignMarkerIgnored ==
    (Listed /\ MarkerInOtherStory) =>
        /\ response.status = 200
        /\ response.body = WithoutMarker.body
        /\ response.headers = WithoutMarker.headers
        /\ "X-Marker" \notin DOMAIN response.headers

\* The marker row is a task of story 1, the listing is of story 2 and not empty.
C6_Witness ==
    /\ Listed
    /\ request.story_id = Some(2)
    /\ request.marker # None
    /\ \E t \in tasks : t.id = request.marker[1] /\ t.story_id = Some(1)
    /\ Len(response.body) >= 1
    /\ "X-Marker" \notin DOMAIN response.headers

DeletedEvent ==
    [kind |-> "task_deleted", story_id |-> original_task[1].story_id,
     task_title |-> original_task[1].title, author_id |-> request.user]

\* C7: a delete of an existing task hands the sink exactly one task_deleted
\* event, of the story and title of the row as it was and of the acting user,
\* while the row is still in the store; when the request completes the row is
\* gone.
C7_DeletedEventBeforeRemoval ==
    /\ pc = "delete" =>
         /\ original_task # None
         /\ original_task[1] \in tasks
         /\ original_task[1].id = request.task_id
         /\ timeline = <<DeletedEvent>>
    /\ (request.op = "delete" /\ response.status = 204) =>
         /\ request.task_id \notin Ids(tasks)
         /\ timeline = <<DeletedEvent>>

\* A task of story 2 created by one user was deleted by the other.
C7_Witness ==
    /\ request.op = "delete"
    /\ response.status = 204
    /\ original_task[1].story_id = Some(2)
    /\ original_task[1].creator_id # Some(request.user)
    /\ tasks = {}

\* C8: get_one, put and delete of an id that is not in the store end in a 404
\* client error and emit no event.
C8_AbsentIdIsNotFound ==
    (/\ pc = "idle"
     /\ \/ request.op = "get_one" /\ request.task_id \notin Ids(tasks)
        \/ request.op \in {"put", "delete"} /\ original_task = None) =>
        /\ response.status = 404
        /\ response.error = "ClientSideError"
        /\ timeline = << >>

\* C9: X-Total is the number of stored tasks that match the story_id and
\* assignee_id filters, whatever the limit, marker, sort_field and sort_dir.
C9_TotalCountsMatches ==
    Listed =>
        response.headers["X-Total"] =
            str(Cardinality({t \in tasks :
                  /\ (request.story_id # None => t.story_id = request.story_id)
                  /\ (request.assignee_id # None =>
                          t.assignee_id = request.assignee_id)}))

\* Two tasks match and the marker, honored, is the last of them: the page is
\* empty and the total is still 2.
C9_Witness ==
    /\ Listed
    /\ "X-Marker" \in DOMAIN response.headers
    /\ response.headers["X-Total"] = str(2)
    /\ Len(response.body) = 0

MarkerRows == {t \in tasks : request.marker # None /\ t.id = request.marker[1]}

\* C10: the marker is honored (X-Marker reported, the page made of rows after
\* the marker row) exactly when it is the id of a stored task whose story_id
\* is the story_id argument; any other marker is dropped and the listing is
\* that without a marker, as for a task of a story under no story filter.
C10_MarkerHonoredIffSameStory ==
    Listed =>
        LET honored == \E t \in MarkerRows : t.story_id = request.story_id
        IN  /\ ("X-Marker" \in DOMAIN response.headers) <=> honored
            /\ honored =>
                 \A t \in MarkerRows :
                    /\ response.headers["X-Marker"] = str(t.id)
                    /\ \A i \in 1..Len(response.body) :
                         /\ response.body[i] # t
                         /\ before(t, response.body[i], request.sort_field,
                                   request.sort_dir)
            /\ ~honored => response = WithoutMarker

\* No story filter, the marker a stored task of a story: the first page, which
\* begins with the marker row itself.
C10_Witness ==
    /\ Listed
    /\ request.story_id = None
    /\ request.marker = Some(1)
    /\ MarkerRows # {}
    /\ "X-Marker" \notin DOMAIN response.headers
    /\ Len(response.body) >= 1
    /\ response.body[1].id = 1

====
